---- MODULE Spec2Model ----
(***************************************************************************)
(* Jupiter Perpetuals position pipeline of solana-perp-test.               *)
(*                                                                         *)
(* Three implementations of getJupiterPositions live in the repository:    *)
(*   "quote"  - Jupiter Quote API price source   (src/unnamed/part_001)     *)
(*   "market" - CoinGecko price source           (src/unnamed/part_002)     *)
(*   "basic"  - no price source, realized PnL    (src/src/lib/jupiter.ts)   *)
(*                                                                         *)
(* BN values are modelled as integers; every value of the model stays far  *)
(* below 2^53, the range in which BN.toNumber() does not throw.  A         *)
(* JavaScript number obtained by a division is modelled as the exact       *)
(* rational <<numerator, denominator>> in lowest terms.                    *)
(***************************************************************************)
EXTENDS Integers, Sequences, FiniteSets, TLC

VARIABLES
    variant,   \* which implementation runs
    calcIn,    \* arguments of a direct calculatePositionPnl call
    calcOut,   \* its outcome, or NoCall
    chain,     \* the program accounts the RPC node holds for the wallet
    pc,        \* position of the getJupiterPositions / processJupiterPosition call
    tasks,     \* one entry per position handed to processJupiterPosition
    result,    \* what getJupiterPositions resolved to, or NotReturned
    rpc,       \* the getProgramAccounts request: "pending", "resolved" or "rejected"
    priceCall, \* a direct fetchCurrentPrice call: its symbol, progress and result
    drift,     \* a getDriftPositions call: its position, resources and outcome
    main       \* the entry point: its position, what it printed, its exit code

vars == <<variant, calcIn, calcOut, chain, pc, tasks, result, rpc, priceCall, drift, main>>

-----------------------------------------------------------------------------
(* Bounds of the model *)

MaxSize == 4          \* raw sizeUsd ranges over 0..MaxSize
MaxPrice == 4         \* raw entry price ranges over 0..MaxPrice
MaxCollateral == 3    \* raw collateralUsd ranges over 0..MaxCollateral
MaxPnl == 1           \* raw realisedPnlUsd ranges over -MaxPnl..MaxPnl
MaxQuoteOut == 5      \* outAmount of a quote ranges over 0..MaxQuoteOut
MaxQuoteIn == 2       \* inAmount of a quote is 0 or 1..MaxQuoteIn whole tokens
MaxAccounts == 2      \* the RPC node returns at most MaxAccounts accounts

-----------------------------------------------------------------------------
(* Program constants *)

USDC_DECIMALS == 6
USD_PRECISION == 1000000
LEVERAGE_PRECISION == 4
BASIC_LEVERAGE_PRECISION == 2

CUSTODY_PUBKEY ==
    [SOL  |-> "7xS2gz2bTp3fwCC7knJvUWTEU9Tycczu6VhJYKgi1wdz",
     ETH  |-> "AQCGyheWPLeo6Qp9WpYS9m3Qj479t7R636N9ey1rEjEn",
     BTC  |-> "5Pv3gM9JrFFH883SWAhvJC9RPYmo8UNxuFtv5bMMALkm",
     USDC |-> "G18jKKXQwBbrHeiK3C9MRXhkHsLHf7XgCSisykV46EZa",
     USDT |-> "4vkNeXiYEUizLdrpdPS1eC2mccyM4NUPRtERrk6ZETkk"]

JUPITER_MARKETS ==
    << [symbol |-> "SOL",  custody |-> CUSTODY_PUBKEY.SOL,  marketIndex |-> 0],
       [symbol |-> "BTC",  custody |-> CUSTODY_PUBKEY.BTC,  marketIndex |-> 1],
       [symbol |-> "ETH",  custody |-> CUSTODY_PUBKEY.ETH,  marketIndex |-> 2],
       [symbol |-> "USDC", custody |-> CUSTODY_PUBKEY.USDC, marketIndex |-> 3],
       [symbol |-> "USDT", custody |-> CUSTODY_PUBKEY.USDT, marketIndex |-> 4] >>

\* Symbols the Quote API resolver has a mint for, with the token's decimals.
TOKEN_DECIMALS == [SOL |-> 9, BTC |-> 8, ETH |-> 8, USDC |-> 6, USDT |-> 6]

\* Symbols the CoinGecko resolver has a coin id for.
COINGECKO_COIN_IDS ==
    [SOL |-> "solana", BTC |-> "bitcoin", ETH |-> "ethereum",
     USDC |-> "usd-coin", USDT |-> "tether"]

\* A custody address that is in no market of the table.
UnknownCustody == "11111111111111111111111111111111"

-----------------------------------------------------------------------------
(* Numbers *)

Abs(n) == IF n < 0 THEN -n ELSE n

Pow10(n) == IF n = 0 THEN 1 ELSE
            IF n = 1 THEN 10 ELSE
            IF n = 2 THEN 100 ELSE
            IF n = 3 THEN 1000 ELSE
            IF n = 4 THEN 10000 ELSE
            IF n = 5 THEN 100000 ELSE
            IF n = 6 THEN 1000000 ELSE
            IF n = 7 THEN 10000000 ELSE
            IF n = 8 THEN 100000000 ELSE 1000000000

RECURSIVE GCD(_, _)
GCD(a, b) == IF b = 0 THEN a ELSE GCD(b, a % b)

\* The JavaScript number n / d (d > 0), as a rational in lowest terms.
Rat(n, d) == LET g == GCD(Abs(n), d) IN <<n \div g, d \div g>>

\* The quotient a / b of two JavaScript numbers, b > 0.
RatDiv(a, b) ==
    LET g1 == GCD(Abs(a[1]), b[1])
        g2 == GCD(b[2], a[2])
    IN  Rat((a[1] \div g1) * (b[2] \div g2), (a[2] \div g2) * (b[1] \div g1))

RatZero == <<0, 1>>
RatOne == <<1, 1>>
RatPos(a) == a[1] > 0

\* Number(x.toFixed(digits)) for x >= 0: x rounded half-up to `digits` decimals.
toFixed(x, digits) ==
    Rat((2 * x[1] * Pow10(digits) + x[2]) \div (2 * x[2]), Pow10(digits))

\* bn.toNumber() / USD_PRECISION
Descale(bn) == Rat(bn, USD_PRECISION)

-----------------------------------------------------------------------------
(* BN arithmetic *)

Thrown == [threw |-> TRUE]

\* No call of calculatePositionPnl was made.
NoCall == [called |-> FALSE]

\* getJupiterPositions has not resolved.
NotReturned == [returned |-> FALSE]

\* getJupiterPositions rejected: an exception reached its caller.
Rejected == [returned |-> FALSE, rejected |-> TRUE]

\* No direct fetchCurrentPrice call is made.
NoPriceCall == [state |-> "none"]

\* getDriftPositions is not called.
NoDrift == [pc |-> "none"]

\* The entry point is not run.
NoMain == [pc |-> "none"]

\* BN.div: asserts a nonzero divisor, truncates toward zero.
BNdiv(a, b) ==
    IF b = 0 THEN Thrown
    ELSE [threw |-> FALSE,
          value |-> IF (a < 0) = (b < 0) THEN Abs(a) \div Abs(b)
                                         ELSE -(Abs(a) \div Abs(b))]

-----------------------------------------------------------------------------
(* Core PnL calculation *)

\* Mutant: divides the price delta by the entry price before multiplying.
calculatePositionPnl_DivideFirst(sizeUsdDelta, positionAvgPrice, positionSide, currentPrice) ==
    IF sizeUsdDelta = 0 THEN [threw |-> FALSE, hasProfit |-> FALSE, pnlAmount |-> 0]
    ELSE
      LET hasProfit == IF positionSide = "long" THEN currentPrice > positionAvgPrice
                                                ELSE positionAvgPrice > currentPrice
          priceDelta == Abs(currentPrice - positionAvgPrice)
          q == BNdiv(priceDelta, positionAvgPrice)
      IN  IF q.threw THEN Thrown
          ELSE [threw |-> FALSE, hasProfit |-> hasProfit,
                pnlAmount |-> sizeUsdDelta * q.value]

\* Mutant: an unchanged price counts as a profit.
calculatePositionPnl_ProfitOnEqual(sizeUsdDelta, positionAvgPrice, positionSide, currentPrice) ==
    IF sizeUsdDelta = 0 THEN [threw |-> FALSE, hasProfit |-> FALSE, pnlAmount |-> 0]
    ELSE
      LET hasProfit == IF positionSide = "long" THEN currentPrice >= positionAvgPrice
                                                ELSE positionAvgPrice >= currentPrice
          priceDelta == Abs(currentPrice - positionAvgPrice)
          q == BNdiv(sizeUsdDelta * priceDelta, positionAvgPrice)
      IN  IF q.threw THEN Thrown
          ELSE [threw |-> FALSE, hasProfit |-> hasProfit, pnlAmount |-> q.value]

\* Mutant: no early return for a zero size.
calculatePositionPnl_NoZeroGuard(sizeUsdDelta, positionAvgPrice, positionSide, currentPrice) ==
    LET hasProfit == IF positionSide = "long" THEN currentPrice > positionAvgPrice
                                              ELSE positionAvgPrice > currentPrice
        priceDelta == Abs(currentPrice - positionAvgPrice)
        q == BNdiv(sizeUsdDelta * priceDelta, positionAvgPrice)
    IN  IF q.threw THEN Thrown
        ELSE [threw |-> FALSE, hasProfit |-> hasProfit, pnlAmount |-> q.value]

\* Mutant: the profit test of a long is applied to both sides.
calculatePositionPnl_SideIgnored(sizeUsdDelta, positionAvgPrice, positionSide, currentPrice) ==
    IF sizeUsdDelta = 0 THEN [threw |-> FALSE, hasProfit |-> FALSE, pnlAmount |-> 0]
    ELSE
      LET hasProfit == currentPrice > positionAvgPrice
          priceDelta == Abs(currentPrice - positionAvgPrice)
          q == BNdiv(sizeUsdDelta * priceDelta, positionAvgPrice)
      IN  IF q.threw THEN Thrown
          ELSE [threw |-> FALSE, hasProfit |-> hasProfit, pnlAmount |-> q.value]

\* Mutant: the quotient is rounded up.
calculatePositionPnl_RoundUp(sizeUsdDelta, positionAvgPrice, positionSide, currentPrice) ==
    IF sizeUsdDelta = 0 THEN [threw |-> FALSE, hasProfit |-> FALSE, pnlAmount |-> 0]
    ELSE
      LET hasProfit == IF positionSide = "long" THEN currentPrice > positionAvgPrice
                                                ELSE positionAvgPrice > currentPrice
          priceDelta == Abs(currentPrice - positionAvgPrice)
          q == BNdiv(sizeUsdDelta * priceDelta + positionAvgPrice - 1, positionAvgPrice)
      IN  IF q.threw THEN Thrown
          ELSE [threw |-> FALSE, hasProfit |-> hasProfit, pnlAmount |-> q.value]

\* calculatePositionPnl: [hasProfit, pnlAmount], or the exception of BN.div.
calculatePositionPnl(sizeUsdDelta, positionAvgPrice, positionSide, currentPrice) ==
    IF sizeUsdDelta = 0 THEN [threw |-> FALSE, hasProfit |-> FALSE, pnlAmount |-> 0]
    ELSE
      LET hasProfit == IF positionSide = "long" THEN currentPrice > positionAvgPrice
                                                ELSE positionAvgPrice > currentPrice
          priceDelta == Abs(currentPrice - positionAvgPrice)
          q == BNdiv(sizeUsdDelta * priceDelta, positionAvgPrice)
      IN  IF q.threw THEN Thrown
          ELSE [threw |-> FALSE, hasProfit |-> hasProfit, pnlAmount |-> q.value]

-----------------------------------------------------------------------------
(* Raw accounts *)

\* JupiterSide is a record with one optional key; a side is the set of its keys.
SideNone == {"none"}
SideLong == {"long"}
SideShort == {"short"}
Sides == {SideNone, SideLong, SideShort}

JupiterSideToString(side) ==
    IF "long" \in side THEN "LONG"
    ELSE IF "short" \in side THEN "SHORT"
    ELSE "NONE"

\* Decoded position accounts a direct processJupiterPosition call is tried on.
Accounts ==
    [custody : {CUSTODY_PUBKEY.BTC, CUSTODY_PUBKEY.USDC, UnknownCustody},
     side : Sides,
     price : 0..MaxPrice,
     sizeUsd : 0..MaxSize,
     collateralUsd : 0..MaxCollateral,
     realisedPnlUsd : (-MaxPnl)..MaxPnl]

\* The accounts of the specification's scenario, at 10^-6 of its scale: long or
\* short, size 1000, entry price 100, collateral 200.
ScenarioAccounts ==
    [custody : {CUSTODY_PUBKEY.BTC}, side : {SideLong, SideShort}, price : {100},
     sizeUsd : {1000}, collateralUsd : {200}, realisedPnlUsd : {0}]

\* The price the scenario's lookup resolves to, at the same scale.
ScenarioPrices == {110}

\* Decoded position accounts the RPC node may hold for the wallet.
ChainAccounts ==
    [custody : {CUSTODY_PUBKEY.BTC, UnknownCustody},
     side : Sides,
     price : {0, 1},
     sizeUsd : {0, 1},
     collateralUsd : {1},
     realisedPnlUsd : {-1}]

\* What getProgramAccounts returns: items whose data decodes to an account, or not.
RawItems ==
    {[decodable |-> TRUE, account |-> a] : a \in ChainAccounts}
    \cup {[decodable |-> FALSE, account |-> [custody |-> UnknownCustody, side |-> SideNone,
            price |-> 0, sizeUsd |-> 0, collateralUsd |-> 0, realisedPnlUsd |-> 0]]}

RECURSIVE SeqsUpTo(_, _)
SeqsUpTo(S, n) ==
    IF n = 0 THEN {<<>>}
    ELSE LET shorter == SeqsUpTo(S, n - 1)
         IN  shorter \cup {Append(q, x) : q \in {r \in shorter : Len(r) = n - 1}, x \in S}

-----------------------------------------------------------------------------
(* Price fetching *)

PriceFetchResult(success, price, symbol) ==
    [success |-> success, price |-> price, symbol |-> symbol]

\* HTTP outcomes of the Quote API request for one token of `symbol`.
QuoteResponses(symbol) ==
    {[kind |-> k, hasIn |-> FALSE, hasOut |-> FALSE, inAmount |-> 0, outAmount |-> 0] :
        k \in {"throw", "notok", "badjson", "ok"}}
    \cup {[kind |-> "ok", hasIn |-> TRUE, hasOut |-> FALSE, inAmount |-> i, outAmount |-> 0] :
            i \in {Pow10(TOKEN_DECIMALS[symbol])}}
    \cup {[kind |-> "ok", hasIn |-> FALSE, hasOut |-> TRUE, inAmount |-> 0, outAmount |-> o] :
            o \in {1}}
    \cup {[kind |-> "ok", hasIn |-> TRUE, hasOut |-> TRUE, inAmount |-> i, outAmount |-> o] :
            i \in {0} \cup {k * Pow10(TOKEN_DECIMALS[symbol]) : k \in 1..MaxQuoteIn},
            o \in 0..MaxQuoteOut}

\* HTTP outcomes of the CoinGecko request; usd is given in quarters of 10^-6 dollar.
MarketResponses ==
    {[kind |-> k, hasUsd |-> FALSE, usdQuarterMicros |-> 0] : k \in {"throw", "notok", "badjson", "ok"}}
    \cup {[kind |-> "ok", hasUsd |-> TRUE, usdQuarterMicros |-> q] :
            q \in ((-1)..(4 * MaxQuoteOut)) \cup {4 * p : p \in ScenarioPrices}}

\* Mutant: USDC is quoted through the network like any other token.
fetchCurrentPriceQuoteStart_NoUsdcShortcut(symbol) ==
    IF symbol \notin DOMAIN TOKEN_DECIMALS
    THEN [pending |-> FALSE, res |-> PriceFetchResult(FALSE, 0, symbol)]
    ELSE [pending |-> TRUE]

\* fetchCurrentPrice (Quote API) up to its network request: a result, or a request.
fetchCurrentPriceQuoteStart(symbol) ==
    IF symbol \notin DOMAIN TOKEN_DECIMALS
    THEN [pending |-> FALSE, res |-> PriceFetchResult(FALSE, 0, symbol)]
    ELSE IF symbol = "USDC"
    THEN [pending |-> FALSE, res |-> PriceFetchResult(TRUE, 1 * Pow10(USDC_DECIMALS), symbol)]
    ELSE [pending |-> TRUE]

\* Mutant: an exception of the request or of the JSON parsing is not caught.
fetchCurrentPriceQuoteFinish_NoCatch(symbol, resp) ==
    IF resp.kind \in {"throw", "badjson"} THEN Thrown
    ELSE IF resp.kind = "notok" THEN PriceFetchResult(FALSE, 0, symbol)
    ELSE IF ~resp.hasOut \/ ~resp.hasIn THEN PriceFetchResult(FALSE, 0, symbol)
    ELSE IF resp.inAmount = 0 THEN PriceFetchResult(FALSE, 0, symbol)
    ELSE LET priceNumerator == resp.outAmount * Pow10(TOKEN_DECIMALS[symbol])
             priceBN == BNdiv(priceNumerator, resp.inAmount)
         IN  PriceFetchResult(TRUE, priceBN.value, symbol)

\* fetchCurrentPrice (Quote API) from the response on.
fetchCurrentPriceQuoteFinish(symbol, resp) ==
    IF resp.kind \in {"throw", "badjson"} THEN PriceFetchResult(FALSE, 0, symbol)
    ELSE IF resp.kind = "notok" THEN PriceFetchResult(FALSE, 0, symbol)
    ELSE IF ~resp.hasOut \/ ~resp.hasIn THEN PriceFetchResult(FALSE, 0, symbol)
    ELSE IF resp.inAmount = 0 THEN PriceFetchResult(FALSE, 0, symbol)
    ELSE LET priceNumerator == resp.outAmount * Pow10(TOKEN_DECIMALS[symbol])
             priceBN == BNdiv(priceNumerator, resp.inAmount)
         IN  PriceFetchResult(TRUE, priceBN.value, symbol)

\* fetchCurrentPrice (CoinGecko) up to its network request.
fetchCurrentPriceMarketStart(symbol) ==
    IF symbol \notin DOMAIN COINGECKO_COIN_IDS
    THEN [pending |-> FALSE, res |-> PriceFetchResult(FALSE, 0, symbol)]
    ELSE [pending |-> TRUE]

\* fetchCurrentPrice (CoinGecko) from the response on; Math.round rounds half up.
fetchCurrentPriceMarketFinish(symbol, resp) ==
    IF resp.kind \in {"throw", "badjson"} THEN PriceFetchResult(FALSE, 0, symbol)
    ELSE IF resp.kind = "notok" THEN PriceFetchResult(FALSE, 0, symbol)
    ELSE IF ~resp.hasUsd \/ resp.usdQuarterMicros <= 0 THEN PriceFetchResult(FALSE, 0, symbol)
    ELSE PriceFetchResult(TRUE, (resp.usdQuarterMicros + 2) \div 4, symbol)

fetchCurrentPriceStart(v, symbol) ==
    IF v = "quote" THEN fetchCurrentPriceQuoteStart(symbol)
                   ELSE fetchCurrentPriceMarketStart(symbol)

fetchCurrentPriceFinish(v, symbol, resp) ==
    IF v = "quote" THEN fetchCurrentPriceQuoteFinish(symbol, resp)
                   ELSE fetchCurrentPriceMarketFinish(symbol, resp)

Responses(v, symbol) ==
    IF v = "quote" THEN QuoteResponses(symbol) ELSE MarketResponses

-----------------------------------------------------------------------------
(* Position account operations *)

\* decodePositionAccounts: items that fail to decode are skipped; the public key
\* of an item is its index in the RPC result.
decodePositionAccounts(rawAccounts) ==
    LET keyed == [i \in 1..Len(rawAccounts) |->
                    [publicKey |-> i, decodable |-> rawAccounts[i].decodable,
                     account |-> rawAccounts[i].account]]
        kept == SelectSeq(keyed, LAMBDA item : item.decodable)
    IN  [i \in 1..Len(kept) |-> [publicKey |-> kept[i].publicKey, account |-> kept[i].account]]

\* Mutant: a zero size counts as open.
filterOpenPositions_ZeroSizeOpen(positions) ==
    SelectSeq(positions, LAMBDA position :
        position.account.sizeUsd >= 0
        /\ JupiterSideToString(position.account.side) # "NONE")

\* filterOpenPositions of the priced variants: a size > 0 and a side other than NONE.
filterOpenPositions(positions) ==
    SelectSeq(positions, LAMBDA position :
        LET hasSize == position.account.sizeUsd > 0
            sideString == JupiterSideToString(position.account.side)
            isNotNone == sideString # "NONE"
        IN  hasSize /\ isNotNone)

\* The open-position filter of the basic variant: a size > 0.
filterOpenPositionsBasic(positions) ==
    SelectSeq(positions, LAMBDA position : position.account.sizeUsd > 0)

-----------------------------------------------------------------------------
(* Position processing *)

Null == [null |-> TRUE]

RECURSIVE FindMarket(_, _)
\* JUPITER_MARKETS.find(market => market.custody === custody), from entry i on.
FindMarket(custody, i) ==
    IF i > Len(JUPITER_MARKETS) THEN Null
    ELSE IF JUPITER_MARKETS[i].custody = custody THEN JUPITER_MARKETS[i]
    ELSE FindMarket(custody, i + 1)

\* Mutant: an unmatched custody falls back to the first market of the table.
findMarketInfo_DefaultFirst(custody) ==
    LET m == FindMarket(custody, 1) IN IF m = Null THEN JUPITER_MARKETS[1] ELSE m

findMarketInfo(custody) == FindMarket(custody, 1)

\* Mutant: the sign of the calculated PnL is dropped.
signedPnl_Unsigned(hasProfit, pnlBN) == Rat(pnlBN, USD_PRECISION)

\* (hasProfit ? pnlBN.toNumber() : -pnlBN.toNumber()) / USD_PRECISION
signedPnl(hasProfit, pnlBN) ==
    Rat(IF hasProfit THEN pnlBN ELSE -pnlBN, USD_PRECISION)

\* Mutant: no realized-PnL fallback, the PnL stays 0.
fallbackPnl_Zero(position) == RatZero

\* position.realisedPnlUsd.toNumber() / USD_PRECISION
fallbackPnl(position) == Descale(position.realisedPnlUsd)

\* Mutant: the size is not divided by the entry price.
baseAmountOf_NoDivision(sizeUsd, entryPrice) ==
    IF RatPos(entryPrice) THEN sizeUsd ELSE RatZero

\* entryPrice > 0 ? sizeUsd / entryPrice : 0
baseAmountOf(sizeUsd, entryPrice) ==
    IF RatPos(entryPrice) THEN RatDiv(sizeUsd, entryPrice) ELSE RatZero

\* Mutant: a position without collateral gets leverage 0.
leverageOf_ZeroWhenNoCollateral(sizeUsd, collateralUsd) ==
    IF RatPos(collateralUsd) THEN RatDiv(sizeUsd, collateralUsd) ELSE RatZero

\* collateralUsd > 0 ? sizeUsd / collateralUsd : 1
leverageOf(sizeUsd, collateralUsd) ==
    IF RatPos(collateralUsd) THEN RatDiv(sizeUsd, collateralUsd) ELSE RatOne

\* calculatePositionMetrics from the price result on: the metrics, or the exception
\* of the calculator; calc records the calculator call made, if any.
calculatePositionMetrics(position, priceResult) ==
    LET sizeUsd == Descale(position.sizeUsd)
        collateralUsd == Descale(position.collateralUsd)
        entryPrice == Descale(position.price)
        baseAmount == baseAmountOf(sizeUsd, entryPrice)
        leverage == leverageOf(sizeUsd, collateralUsd)
    IN  IF priceResult.success /\ priceResult.price > 0
        THEN LET direction == JupiterSideToString(position.side)
                 positionSide == IF direction = "LONG" THEN "long"
                                 ELSE IF direction = "SHORT" THEN "short" ELSE "none"
                 args == [sizeUsdDelta |-> position.sizeUsd, positionAvgPrice |-> position.price,
                          positionSide |-> positionSide, currentPrice |-> priceResult.price]
                 out == calculatePositionPnl(position.sizeUsd, position.price,
                                             positionSide, priceResult.price)
                 calc == [called |-> TRUE, args |-> args, out |-> out]
             IN  IF out.threw THEN [threw |-> TRUE, calc |-> calc]
                 ELSE [threw |-> FALSE, calc |-> calc,
                       sizeUsd |-> sizeUsd, collateralUsd |-> collateralUsd,
                       entryPrice |-> entryPrice, baseAmount |-> baseAmount,
                       markPrice |-> Rat(priceResult.price, Pow10(USDC_DECIMALS)),
                       pnl |-> signedPnl(out.hasProfit, out.pnlAmount),
                       leverage |-> leverage]
        ELSE [threw |-> FALSE, calc |-> NoCall,
              sizeUsd |-> sizeUsd, collateralUsd |-> collateralUsd,
              entryPrice |-> entryPrice, baseAmount |-> baseAmount,
              markPrice |-> entryPrice,
              pnl |-> fallbackPnl(position),
              leverage |-> leverage]

NoPrice == [fetched |-> FALSE]

\* Mutant: the price is looked up before the market and the side are checked.
ReturnedNull_AfterLookup(positionData) ==
    [publicKey |-> positionData.publicKey, account |-> positionData.account,
     state |-> "done", symbol |-> "", lookups |-> 1, requests |-> 1,
     priceResult |-> NoPrice, calc |-> NoCall, caught |-> FALSE, result |-> Null]

\* A processJupiterPosition call that returned without awaiting anything.
ReturnedNull(positionData) ==
    [publicKey |-> positionData.publicKey, account |-> positionData.account,
     state |-> "done", symbol |-> "", lookups |-> 0, requests |-> 0,
     priceResult |-> NoPrice, calc |-> NoCall, caught |-> FALSE, result |-> Null]

\* The rest of processJupiterPosition once fetchCurrentPrice has resolved: the
\* Position, or null when calculatePositionMetrics threw into the catch block.
processJupiterPositionFinish(positionData, marketInfo, lookups, requests, priceResult) ==
    LET position == positionData.account
        metrics == calculatePositionMetrics(position, priceResult)
        direction == JupiterSideToString(position.side)
    IN  [publicKey |-> positionData.publicKey, account |-> position,
         state |-> "done", symbol |-> marketInfo.symbol,
         lookups |-> lookups, requests |-> requests,
         priceResult |-> [fetched |-> TRUE, res |-> priceResult],
         calc |-> metrics.calc, caught |-> metrics.threw,
         result |-> IF metrics.threw THEN Null
                    ELSE [symbol |-> marketInfo.symbol,
                          sizeUsd |-> metrics.sizeUsd,
                          baseAmount |-> metrics.baseAmount,
                          direction |-> direction,
                          pnl |-> metrics.pnl,
                          entryPrice |-> metrics.entryPrice,
                          markPrice |-> metrics.markPrice,
                          leverage |-> toFixed(metrics.leverage, LEVERAGE_PRECISION),
                          protocolMarketId |-> position.custody]]

\* processJupiterPosition from the market found on, up to the first network request.
processJupiterPositionLookup(v, positionData, marketInfo) ==
    LET start == fetchCurrentPriceStart(v, marketInfo.symbol)
    IN  IF start.pending
        THEN [publicKey |-> positionData.publicKey, account |-> positionData.account,
              state |-> "pending", symbol |-> marketInfo.symbol,
              lookups |-> 1, requests |-> 1,
              priceResult |-> NoPrice, calc |-> NoCall, caught |-> FALSE, result |-> Null]
        ELSE processJupiterPositionFinish(positionData, marketInfo, 1, 0, start.res)

\* Mutant: closed positions (side NONE) are processed like open ones.
processJupiterPosition_NoSideCheck(v, positionData) ==
    LET marketInfo == findMarketInfo(positionData.account.custody)
    IN  IF marketInfo = Null THEN ReturnedNull(positionData)
        ELSE processJupiterPositionLookup(v, positionData, marketInfo)

\* processJupiterPosition of the priced variants, up to the first network request.
processJupiterPosition(v, positionData) ==
    LET position == positionData.account
        marketInfo == findMarketInfo(position.custody)
        direction == JupiterSideToString(position.side)
    IN  IF marketInfo = Null THEN ReturnedNull(positionData)
        ELSE IF direction = "NONE" THEN ReturnedNull(positionData)
        ELSE processJupiterPositionLookup(v, positionData, marketInfo)

\* processJupiterPosition of the basic variant: synchronous, no price lookup.
processJupiterPositionBasic(positionData) ==
    LET positionAccount == positionData.account
        marketInfo == findMarketInfo(positionAccount.custody)
        sizeUsd == Descale(positionAccount.sizeUsd)
        collateralUsd == Descale(positionAccount.collateralUsd)
        realizedPnl == Descale(positionAccount.realisedPnlUsd)
        entryPrice == Descale(positionAccount.price)
        sideString == JupiterSideToString(positionAccount.side)
        leverage == leverageOf(sizeUsd, collateralUsd)
    IN  IF marketInfo = Null THEN ReturnedNull(positionData)
        ELSE IF sideString = "NONE" THEN ReturnedNull(positionData)
        ELSE [publicKey |-> positionData.publicKey, account |-> positionAccount,
              state |-> "done", symbol |-> marketInfo.symbol, lookups |-> 0, requests |-> 0,
              priceResult |-> NoPrice, calc |-> NoCall, caught |-> FALSE,
              result |-> [marketIndex |-> marketInfo.marketIndex,
                          symbol |-> marketInfo.symbol,
                          size |-> sizeUsd,
                          direction |-> sideString,
                          pnl |-> realizedPnl,
                          entryPrice |-> entryPrice,
                          markPrice |-> entryPrice,
                          leverage |-> toFixed(leverage, BASIC_LEVERAGE_PRECISION)]]

\* The promise of one processJupiterPosition call, as first scheduled.
StartTask(v, positionData) ==
    IF v = "basic" THEN processJupiterPositionBasic(positionData)
                   ELSE processJupiterPosition(v, positionData)

\* Mutant: one failed position empties the batch.
validPositions_AllOrNothing(ts) ==
    IF \E i \in 1..Len(ts) : ts[i].result = Null THEN <<>>
    ELSE [i \in 1..Len(ts) |-> ts[i].result]

\* processedPositions.filter(position => position !== null)
validPositions(ts) ==
    LET kept == SelectSeq(ts, LAMBDA t : t.result # Null)
    IN  [i \in 1..Len(kept) |-> kept[i].result]

-----------------------------------------------------------------------------
(* getJupiterPositions *)

Variants == {"quote", "market", "basic"}

\* The call has issued getProgramAccounts and awaits it.
Init ==
    /\ variant \in Variants
    /\ calcIn = [sizeUsdDelta |-> 0, positionAvgPrice |-> 0,
                 positionSide |-> "long", currentPrice |-> 0]
    /\ calcOut = NoCall
    /\ chain \in SeqsUpTo(RawItems, MaxAccounts)
    /\ pc = "fetching"
    /\ tasks = <<>>
    /\ result = NotReturned
    /\ rpc = "pending"
    /\ priceCall = NoPriceCall
    /\ drift = NoDrift
    /\ main = NoMain

\* Mutant: the rejection of getProgramAccounts reaches the caller.
RpcThrow_Propagates ==
    /\ pc = "fetching"
    /\ pc' = "done"
    /\ rpc' = "rejected"
    /\ result' = Rejected
    /\ UNCHANGED <<variant, calcIn, calcOut, chain, tasks, priceCall, drift, main>>

\* getProgramAccounts rejects (or the address is no public key): caught, [] returned.
RpcThrow ==
    /\ pc = "fetching"
    /\ pc' = "done"
    /\ rpc' = "rejected"
    /\ result' = [returned |-> TRUE, value |-> <<>>]
    /\ UNCHANGED <<variant, calcIn, calcOut, chain, tasks, priceCall, drift, main>>

\* getProgramAccounts resolves: decode, filter, and start one
\* processJupiterPosition per open position (the basic variant finishes here).
RpcReturn ==
    /\ pc = "fetching"
    /\ LET rawAccounts == chain
           decodedPositions == decodePositionAccounts(rawAccounts)
           openPositions == IF variant = "basic"
                            THEN filterOpenPositionsBasic(decodedPositions)
                            ELSE filterOpenPositions(decodedPositions)
           started == [i \in 1..Len(openPositions) |-> StartTask(variant, openPositions[i])]
       IN  IF Len(rawAccounts) = 0 \/ Len(openPositions) = 0
           THEN /\ pc' = "done"
                /\ tasks' = tasks
                /\ result' = [returned |-> TRUE, value |-> <<>>]
           ELSE IF variant = "basic"
           THEN /\ pc' = "done"
                /\ tasks' = started
                /\ result' = [returned |-> TRUE, value |-> validPositions(started)]
           ELSE /\ pc' = "processing"
                /\ tasks' = started
                /\ result' = result
    /\ rpc' = "resolved"
    /\ UNCHANGED <<variant, calcIn, calcOut, chain, priceCall, drift, main>>

\* Mutant: a price response is shared by every pending task of the same symbol.
PriceRespond_SharedResponse(i) ==
    /\ pc \in {"processing", "direct"}
    /\ i \in 1..Len(tasks)
    /\ tasks[i].state = "pending"
    /\ \E resp \in Responses(variant, tasks[i].symbol) :
          tasks' = [j \in 1..Len(tasks) |->
              IF tasks[j].state = "pending" /\ tasks[j].symbol = tasks[i].symbol
              THEN processJupiterPositionFinish(
                       [publicKey |-> tasks[j].publicKey, account |-> tasks[j].account],
                       findMarketInfo(tasks[j].account.custody),
                       tasks[j].lookups, tasks[j].requests,
                       fetchCurrentPriceFinish(variant, tasks[j].symbol, resp))
              ELSE tasks[j]]
    /\ UNCHANGED <<variant, calcIn, calcOut, chain, pc, result, rpc, priceCall, drift, main>>

\* The price request of task i completes with some response; the task runs to its end.
PriceRespond(i) ==
    /\ pc \in {"processing", "direct"}
    /\ i \in 1..Len(tasks)
    /\ tasks[i].state = "pending"
    /\ \E resp \in Responses(variant, tasks[i].symbol) :
          tasks' = [tasks EXCEPT ![i] =
              processJupiterPositionFinish(
                  [publicKey |-> tasks[i].publicKey, account |-> tasks[i].account],
                  findMarketInfo(tasks[i].account.custody),
                  tasks[i].lookups, tasks[i].requests,
                  fetchCurrentPriceFinish(variant, tasks[i].symbol, resp))]
    /\ UNCHANGED <<variant, calcIn, calcOut, chain, pc, result, rpc, priceCall, drift, main>>

\* Mutant: the call returns as soon as one task has completed.
Join_FirstCompleted ==
    /\ pc = "processing"
    /\ \E i \in 1..Len(tasks) : tasks[i].state = "done"
    /\ pc' = "done"
    /\ result' = [returned |-> TRUE, value |-> validPositions(tasks)]
    /\ UNCHANGED <<variant, calcIn, calcOut, chain, tasks, rpc, priceCall, drift, main>>

\* Promise.all resolves once every task has; the non-null results are returned.
Join ==
    /\ pc = "processing"
    /\ \A i \in 1..Len(tasks) : tasks[i].state = "done"
    /\ pc' = "done"
    /\ result' = [returned |-> TRUE, value |-> validPositions(tasks)]
    /\ UNCHANGED <<variant, calcIn, calcOut, chain, tasks, rpc, priceCall, drift, main>>

Next ==
    \/ RpcThrow
    \/ RpcReturn
    \/ \E i \in 1..MaxAccounts : PriceRespond(i)
    \/ Join

Spec == Init /\ [][Next]_vars

\* Every external call eventually returns or fails, and the continuation of a
\* settled promise is eventually run.
\* The batches the termination of the call is checked on.
LiveItems ==
    {[decodable |-> TRUE,
      account |-> [custody |-> CUSTODY_PUBKEY.BTC, side |-> side, price |-> price,
                   sizeUsd |-> 1, collateralUsd |-> 1, realisedPnlUsd |-> -1]] :
        side \in {SideLong}, price \in {0, 1}}
    \cup {[decodable |-> TRUE,
           account |-> [custody |-> UnknownCustody, side |-> SideShort, price |-> 1,
                        sizeUsd |-> 1, collateralUsd |-> 1, realisedPnlUsd |-> -1]]}

LiveChains ==
    {<<>>} \cup {<<x>> : x \in LiveItems} \cup {<<x, y>> : x \in LiveItems, y \in LiveItems}

InitLive ==
    /\ variant \in Variants
    /\ calcIn = [sizeUsdDelta |-> 0, positionAvgPrice |-> 0,
                 positionSide |-> "long", currentPrice |-> 0]
    /\ calcOut = NoCall
    /\ chain \in LiveChains
    /\ pc = "fetching"
    /\ tasks = <<>>
    /\ result = NotReturned
    /\ rpc = "pending"
    /\ priceCall = NoPriceCall
    /\ drift = NoDrift
    /\ main = NoMain

SpecLive ==
    /\ InitLive /\ [][Next]_vars
    /\ WF_vars(RpcThrow \/ RpcReturn)
    /\ \A i \in 1..MaxAccounts : WF_vars(PriceRespond(i))
    /\ WF_vars(Join)

-----------------------------------------------------------------------------
(* A direct call of processJupiterPosition on one decoded account *)

InitNormalize ==
    /\ variant \in Variants
    /\ calcIn = [sizeUsdDelta |-> 0, positionAvgPrice |-> 0,
                 positionSide |-> "long", currentPrice |-> 0]
    /\ calcOut = NoCall
    /\ chain \in {<<[decodable |-> TRUE, account |-> a]>> : a \in Accounts \cup ScenarioAccounts}
    /\ pc = "call"
    /\ tasks = <<>>
    /\ result = NotReturned
    /\ rpc = "pending"
    /\ priceCall = NoPriceCall
    /\ drift = NoDrift
    /\ main = NoMain

\* processJupiterPosition is called on the account and runs up to its first await.
ProcessCall ==
    /\ pc = "call"
    /\ pc' = "direct"
    /\ tasks' = <<StartTask(variant, [publicKey |-> 1, account |-> chain[1].account])>>
    /\ UNCHANGED <<variant, calcIn, calcOut, chain, result, rpc, priceCall, drift, main>>

NextNormalize ==
    \/ ProcessCall
    \/ PriceRespond(1)

SpecNormalize == InitNormalize /\ [][NextNormalize]_vars

-----------------------------------------------------------------------------
(* A direct call of the calculator *)

CalcArgs ==
    [sizeUsdDelta : 0..MaxSize, positionAvgPrice : 0..MaxPrice,
     positionSide : {"long", "short"}, currentPrice : 0..(MaxPrice + MaxQuoteOut)]

InitCalc ==
    /\ variant = "quote"
    /\ calcIn \in CalcArgs
    /\ calcOut = NoCall
    /\ chain = <<>>
    /\ pc = "calc"
    /\ tasks = <<>>
    /\ result = NotReturned
    /\ rpc = "pending"
    /\ priceCall = NoPriceCall
    /\ drift = NoDrift
    /\ main = NoMain

Calculate ==
    /\ pc = "calc"
    /\ calcOut = NoCall
    /\ calcOut' = [called |-> TRUE,
                   out |-> calculatePositionPnl(calcIn.sizeUsdDelta, calcIn.positionAvgPrice,
                                                calcIn.positionSide, calcIn.currentPrice)]
    /\ UNCHANGED <<variant, calcIn, chain, pc, tasks, result, rpc, priceCall, drift, main>>

NextCalc == Calculate

SpecCalc == InitCalc /\ [][NextCalc]_vars

-----------------------------------------------------------------------------
(* The reported PnL of two calculator calls side by side *)

\* pnlUsd of calculatePositionMetrics after a usable price: the calculator's
\* amount, signed and descaled, or the calculator's exception.
pnlUsd(sizeUsdDelta, positionAvgPrice, positionSide, currentPrice) ==
    LET pnlResult == calculatePositionPnl(sizeUsdDelta, positionAvgPrice,
                                          positionSide, currentPrice)
    IN  IF pnlResult.threw THEN Thrown
        ELSE [threw |-> FALSE, pnl |-> signedPnl(pnlResult.hasProfit, pnlResult.pnlAmount)]

InitCompare ==
    /\ variant = "quote"
    /\ calcIn \in CalcArgs
    /\ calcOut = NoCall
    /\ chain = <<>>
    /\ pc = "compare"
    /\ tasks = <<>>
    /\ result = NotReturned
    /\ rpc = "pending"
    /\ priceCall = NoPriceCall
    /\ drift = NoDrift
    /\ main = NoMain

\* The same size, entry price and current price as a long and as a short.
CompareSides ==
    /\ pc = "compare"
    /\ calcOut = NoCall
    /\ calcOut' = [called |-> TRUE, kind |-> "sides",
                   long |-> pnlUsd(calcIn.sizeUsdDelta, calcIn.positionAvgPrice,
                                   "long", calcIn.currentPrice),
                   short |-> pnlUsd(calcIn.sizeUsdDelta, calcIn.positionAvgPrice,
                                    "short", calcIn.currentPrice)]
    /\ UNCHANGED <<variant, calcIn, chain, pc, tasks, result, rpc, priceCall, drift, main>>

\* The same position at its current price and at a price at least as high.
ComparePrices ==
    /\ pc = "compare"
    /\ calcOut = NoCall
    /\ \E higherPrice \in calcIn.currentPrice..(MaxPrice + MaxQuoteOut) :
          calcOut' = [called |-> TRUE, kind |-> "prices", higherPrice |-> higherPrice,
                      atCurrent |-> pnlUsd(calcIn.sizeUsdDelta, calcIn.positionAvgPrice,
                                           calcIn.positionSide, calcIn.currentPrice),
                      atHigher |-> pnlUsd(calcIn.sizeUsdDelta, calcIn.positionAvgPrice,
                                          calcIn.positionSide, higherPrice)]
    /\ UNCHANGED <<variant, calcIn, chain, pc, tasks, result, rpc, priceCall, drift, main>>

NextCompare ==
    \/ CompareSides
    \/ ComparePrices

SpecCompare == InitCompare /\ [][NextCompare]_vars

-----------------------------------------------------------------------------
(* A direct call of fetchCurrentPrice *)

\* A symbol neither resolver has a mint address or a coin id for.
UnsupportedSymbol == "DOGE"

PriceSymbols == {"BTC", "USDT", "USDC", UnsupportedSymbol}

NoResponse == [kind |-> "none"]

InitPrice ==
    /\ variant \in {"quote", "market"}
    /\ calcIn = [sizeUsdDelta |-> 0, positionAvgPrice |-> 0,
                 positionSide |-> "long", currentPrice |-> 0]
    /\ calcOut = NoCall
    /\ chain = <<>>
    /\ pc = "price"
    /\ tasks = <<>>
    /\ result = NotReturned
    /\ rpc = "pending"
    /\ priceCall \in {[state |-> "call", symbol |-> symbol, requests |-> 0,
                        resp |-> NoResponse, res |-> NoPrice] : symbol \in PriceSymbols}
    /\ drift = NoDrift
    /\ main = NoMain

\* fetchCurrentPrice is called and runs up to its network request, if it makes one.
FetchCall ==
    /\ pc = "price"
    /\ priceCall.state = "call"
    /\ LET started == fetchCurrentPriceStart(variant, priceCall.symbol)
       IN  priceCall' = IF started.pending
                        THEN [priceCall EXCEPT !.state = "awaiting", !.requests = 1]
                        ELSE [priceCall EXCEPT !.state = "done", !.res = started.res]
    /\ UNCHANGED <<variant, calcIn, calcOut, chain, pc, tasks, result, rpc, drift, main>>

\* The network request completes with some response; fetchCurrentPrice returns.
FetchRespond ==
    /\ pc = "price"
    /\ priceCall.state = "awaiting"
    /\ \E resp \in Responses(variant, priceCall.symbol) :
          priceCall' = [priceCall EXCEPT
                           !.state = "done",
                           !.resp = resp,
                           !.res = fetchCurrentPriceFinish(variant, priceCall.symbol, resp)]
    /\ UNCHANGED <<variant, calcIn, calcOut, chain, pc, tasks, result, rpc, drift, main>>

NextPrice ==
    \/ FetchCall
    \/ FetchRespond

SpecPrice == InitPrice /\ [][NextPrice]_vars

-----------------------------------------------------------------------------
(* getDriftPositions *)

MaxDriftPositions == 2    \* the user account holds at most MaxDriftPositions open perp positions

\* "lib" is src/lib/drift.ts, "processing" the variant that normalizes positions.
DriftImpls == {"lib", "processing"}

NoOutcome == [kind |-> "none"]

Returns(value) == [kind |-> "return", value |-> value]

Throws(error) == [kind |-> "throw", error |-> error]

\* getDriftPositions has been called and awaits connection.getVersion().
DriftCalled(impl, perpPositions) ==
    [impl |-> impl, pc |-> "getVersion", perpPositions |-> perpPositions,
     client |-> "none", user |-> "none",
     clientVar |-> FALSE, userVar |-> FALSE,
     userUnsub |-> "no", clientUnsub |-> "no",
     outcome |-> NoOutcome, result |-> NoOutcome]

\* The call settles with its outcome: the caller observes it.
DriftSettle(d) == [d EXCEPT !.pc = "done", !.result = d.outcome]

\* A return or a throw outside any try block: the outcome goes to the caller as is.
DriftLeave(d, outcome) == DriftSettle([d EXCEPT !.outcome = outcome])

\* Mutant: the finally block cleans up the client only.
DriftFinally_ClientOnly(d, outcome) ==
    LET left == [d EXCEPT !.outcome = outcome]
    IN  IF d.clientVar THEN [left EXCEPT !.pc = "clientUnsubscribe"]
        ELSE DriftSettle(left)

\* A return or a throw inside the try block: the finally block calls
\* cleanup(user, driftClient), which runs up to its first await, if it has one.
DriftFinally(d, outcome) ==
    LET left == [d EXCEPT !.outcome = outcome]
    IN  IF d.userVar THEN [left EXCEPT !.pc = "userUnsubscribe"]
        ELSE IF d.clientVar THEN [left EXCEPT !.pc = "clientUnsubscribe"]
        ELSE DriftSettle(left)

\* The statements from initializeClient to user.exists() are inside the try block
\* in src/lib/drift.ts and before it in the processing variant.
DriftEarlyExit(d, outcome) ==
    IF d.impl = "lib" THEN DriftFinally(d, outcome) ELSE DriftLeave(d, outcome)

InitDrift ==
    /\ variant = "basic"
    /\ calcIn = [sizeUsdDelta |-> 0, positionAvgPrice |-> 0,
                 positionSide |-> "long", currentPrice |-> 0]
    /\ calcOut = NoCall
    /\ chain = <<>>
    /\ pc = "drift"
    /\ tasks = <<>>
    /\ result = NotReturned
    /\ rpc = "pending"
    /\ priceCall = NoPriceCall
    /\ drift \in {DriftCalled(impl, n) : impl \in DriftImpls, n \in 0..MaxDriftPositions}
    /\ main = NoMain

\* connection.getVersion() resolves or rejects (initializeClient).
DriftGetVersion ==
    /\ drift.pc = "getVersion"
    /\ \/ drift' = [drift EXCEPT !.pc = "clientSubscribe"]
       \/ drift' = DriftEarlyExit(drift, Throws("getVersion"))
    /\ UNCHANGED <<variant, calcIn, calcOut, chain, pc, tasks, result, rpc, priceCall, main>>

\* client.subscribe() resolves, and initializeClient returns the client and
\* createUser awaits getUserAccountPublicKey; or it rejects, and no client is
\* returned.
DriftClientSubscribe ==
    /\ drift.pc = "clientSubscribe"
    /\ \/ drift' = [drift EXCEPT !.pc = "createUser", !.client = "subscribed",
                                  !.clientVar = TRUE]
       \/ drift' = DriftEarlyExit(drift, Throws("clientSubscribe"))
    /\ UNCHANGED <<variant, calcIn, calcOut, chain, pc, tasks, result, rpc, priceCall, main>>

\* createUser returns the user, and user.exists() is awaited; or it throws.
DriftCreateUser ==
    /\ drift.pc = "createUser"
    /\ \/ drift' = [drift EXCEPT !.pc = "exists", !.user = "created", !.userVar = TRUE]
       \/ drift' = DriftEarlyExit(drift, Throws("createUser"))
    /\ UNCHANGED <<variant, calcIn, calcOut, chain, pc, tasks, result, rpc, priceCall, main>>

\* user.exists() answers true, and user.subscribe() is awaited; answers false, and
\* [] is returned; or rejects.
DriftExists ==
    /\ drift.pc = "exists"
    /\ \/ drift' = [drift EXCEPT !.pc = "userSubscribe"]
       \/ drift' = DriftEarlyExit(drift, Returns(0))
       \/ drift' = DriftEarlyExit(drift, Throws("exists"))
    /\ UNCHANGED <<variant, calcIn, calcOut, chain, pc, tasks, result, rpc, priceCall, main>>

\* user.subscribe() resolves: the non-empty positions are returned, or (processing
\* variant, some position) Promise.allSettled is awaited; or it rejects.
DriftUserSubscribe ==
    /\ drift.pc = "userSubscribe"
    /\ \/ LET subscribed == [drift EXCEPT !.user = "subscribed"]
          IN  drift' = IF drift.perpPositions = 0 THEN DriftFinally(subscribed, Returns(0))
                       ELSE IF drift.impl = "lib"
                       THEN DriftFinally(subscribed, Returns(drift.perpPositions))
                       ELSE [subscribed EXCEPT !.pc = "processing"]
       \/ drift' = DriftFinally(drift, Throws("userSubscribe"))
    /\ UNCHANGED <<variant, calcIn, calcOut, chain, pc, tasks, result, rpc, priceCall, main>>

\* Promise.allSettled resolves: the fulfilled non-null results are returned
\* (processPosition returns null for an unknown market and on any exception).
DriftProcessed ==
    /\ drift.pc = "processing"
    /\ \E kept \in 0..drift.perpPositions : drift' = DriftFinally(drift, Returns(kept))
    /\ UNCHANGED <<variant, calcIn, calcOut, chain, pc, tasks, result, rpc, priceCall, main>>

\* After the user's part of cleanup: the client's part, or the end of cleanup.
DriftCleanupClient(d) ==
    IF d.clientVar THEN [d EXCEPT !.pc = "clientUnsubscribe"] ELSE DriftSettle(d)

\* Mutant: cleanup does not catch the exception of user.unsubscribe().
DriftUserUnsubscribe_Uncaught ==
    /\ drift.pc = "userUnsubscribe"
    /\ \/ drift' = DriftCleanupClient([drift EXCEPT !.user = "unsubscribed", !.userUnsub = "ok"])
       \/ drift' = DriftLeave([drift EXCEPT !.userUnsub = "threw"], Throws("userUnsubscribe"))
    /\ UNCHANGED <<variant, calcIn, calcOut, chain, pc, tasks, result, rpc, priceCall, main>>

\* cleanup: user.unsubscribe() resolves, or rejects and is caught and logged.
DriftUserUnsubscribe ==
    /\ drift.pc = "userUnsubscribe"
    /\ \/ drift' = DriftCleanupClient([drift EXCEPT !.user = "unsubscribed", !.userUnsub = "ok"])
       \/ drift' = DriftCleanupClient([drift EXCEPT !.userUnsub = "threw"])
    /\ UNCHANGED <<variant, calcIn, calcOut, chain, pc, tasks, result, rpc, priceCall, main>>

\* cleanup: driftClient.unsubscribe() resolves, or rejects and is caught and
\* logged; cleanup returns and the call settles.
DriftClientUnsubscribe ==
    /\ drift.pc = "clientUnsubscribe"
    /\ \/ drift' = DriftSettle([drift EXCEPT !.client = "unsubscribed", !.clientUnsub = "ok"])
       \/ drift' = DriftSettle([drift EXCEPT !.clientUnsub = "threw"])
    /\ UNCHANGED <<variant, calcIn, calcOut, chain, pc, tasks, result, rpc, priceCall, main>>

NextDrift ==
    \/ DriftGetVersion
    \/ DriftClientSubscribe
    \/ DriftCreateUser
    \/ DriftExists
    \/ DriftUserSubscribe
    \/ DriftProcessed
    \/ DriftUserUnsubscribe
    \/ DriftClientUnsubscribe

SpecDrift == InitDrift /\ [][NextDrift]_vars

-----------------------------------------------------------------------------
(* main *)

\* "sequential" is src/index.ts, which awaits the Drift call before it makes the
\* Jupiter call; "concurrent" starts both and awaits Promise.all.
MainImpls == {"sequential", "concurrent"}

NoReport == [printed |-> FALSE]

InitMain ==
    /\ variant = "basic"
    /\ calcIn = [sizeUsdDelta |-> 0, positionAvgPrice |-> 0,
                 positionSide |-> "long", currentPrice |-> 0]
    /\ calcOut = NoCall
    /\ chain \in LiveChains
    /\ pc = "main"
    /\ tasks = <<>>
    /\ result = NotReturned
    /\ rpc = "pending"
    /\ priceCall = NoPriceCall
    /\ drift = NoDrift
    /\ main \in {[impl |-> impl, pc |-> "start", driftImpl |-> driftImpl,
                   perpPositions |-> n, report |-> NoReport, exitCode |-> 0] :
                    impl \in MainImpls, driftImpl \in DriftImpls, n \in 0..MaxDriftPositions}

\* logger.info of the combined positions and of the total PnL.
MainReport(m, driftPositions, jupiterPositions) ==
    [m EXCEPT !.pc = "reported",
              !.report = [printed |-> TRUE, positions |-> driftPositions + Len(jupiterPositions)]]

\* catch: logger.error and process.exit(1).
MainCatch(m) == [m EXCEPT !.pc = "exited", !.exitCode = 1]

\* main calls getDriftPositions, which runs up to its first await; the
\* concurrent entry point then calls getJupiterPositions as well.
MainStart ==
    /\ main.pc = "start"
    /\ drift' = DriftCalled(main.driftImpl, main.perpPositions)
    /\ IF main.impl = "sequential"
       THEN main' = [main EXCEPT !.pc = "awaitDrift"] /\ pc' = pc
       ELSE main' = [main EXCEPT !.pc = "awaitAll"] /\ pc' = "fetching"
    /\ UNCHANGED <<variant, calcIn, calcOut, chain, tasks, result, rpc, priceCall>>

\* Sequential: getDriftPositions has settled; on a value getJupiterPositions is
\* called, on an error the catch block exits.
MainDriftSettled ==
    /\ main.pc = "awaitDrift"
    /\ drift.pc = "done"
    /\ IF drift.result.kind = "return"
       THEN main' = [main EXCEPT !.pc = "awaitJupiter"] /\ pc' = "fetching"
       ELSE main' = MainCatch(main) /\ pc' = pc
    /\ UNCHANGED <<variant, calcIn, calcOut, chain, tasks, result, rpc, priceCall, drift>>

\* Sequential: getJupiterPositions has settled; the positions are reported.
MainJupiterSettled ==
    /\ main.pc = "awaitJupiter"
    /\ pc = "done"
    /\ main' = IF result.returned THEN MainReport(main, drift.result.value, result.value)
                                  ELSE MainCatch(main)
    /\ UNCHANGED <<variant, calcIn, calcOut, chain, pc, tasks, result, rpc, priceCall, drift>>

\* Concurrent: Promise.all rejects as soon as one call has rejected and resolves
\* once both have resolved.
MainAllSettled ==
    /\ main.pc = "awaitAll"
    /\ \/ /\ drift.pc = "done" /\ drift.result.kind = "throw"
          /\ main' = MainCatch(main)
       \/ /\ pc = "done" /\ ~result.returned
          /\ main' = MainCatch(main)
       \/ /\ drift.pc = "done" /\ drift.result.kind = "return"
          /\ pc = "done" /\ result.returned
          /\ main' = MainReport(main, drift.result.value, result.value)
    /\ UNCHANGED <<variant, calcIn, calcOut, chain, pc, tasks, result, rpc, priceCall, drift>>

\* The calls make their steps until process.exit ends the process.
NextMain ==
    \/ MainStart
    \/ MainDriftSettled
    \/ MainJupiterSettled
    \/ MainAllSettled
    \/ (main.pc # "exited" /\ NextDrift)
    \/ (main.pc # "exited" /\ RpcThrow)
    \/ (main.pc # "exited" /\ RpcReturn)

SpecMain == InitMain /\ [][NextMain]_vars

-----------------------------------------------------------------------------
(* Properties of the PnL calculator, checked under SpecCalc *)

CalcReturned == calcOut.called /\ ~calcOut.out.threw

\* C1: for sizeUsd > 0 and entryPrice > 0 the returned magnitude is
\* floor(sizeUsd * |currentPrice - entryPrice| / entryPrice): the product is
\* formed first and divided once.
C1_MagnitudeIsFloorOfProduct ==
    (calcOut.called /\ calcIn.sizeUsdDelta > 0 /\ calcIn.positionAvgPrice > 0) =>
        /\ ~calcOut.out.threw
        /\ LET product == calcIn.sizeUsdDelta * Abs(calcIn.currentPrice - calcIn.positionAvgPrice)
               amount == calcOut.out.pnlAmount
           IN  /\ amount * calcIn.positionAvgPrice <= product
               /\ product < (amount + 1) * calcIn.positionAvgPrice

\* A call where dividing first would lose the result: 3 * |3 - 2| / 2 = 1.
C1_Witness ==
    /\ CalcReturned
    /\ calcIn.sizeUsdDelta = 3 /\ calcIn.positionAvgPrice = 2 /\ calcIn.currentPrice = 3
    /\ calcOut.out.pnlAmount = 1

ProfitRule ==
    IF calcIn.positionSide = "long" THEN calcIn.currentPrice > calcIn.positionAvgPrice
                                    ELSE calcIn.positionAvgPrice > calcIn.currentPrice

\* C2 as claimed: for every nonzero size and every pair of prices the call
\* reports hasProfit by the strict direction rule.
C2_ProfitRuleEveryPrice ==
    (calcOut.called /\ calcIn.sizeUsdDelta # 0) =>
        (~calcOut.out.threw /\ calcOut.out.hasProfit = ProfitRule)

\* C2 as amended: for every nonzero size and every pair of prices with a nonzero
\* entry price, hasProfit is true for a long exactly when currentPrice > entryPrice,
\* for a short exactly when entryPrice > currentPrice, and false on equal prices.
C2_ProfitRuleNonzeroEntry ==
    (calcOut.called /\ calcIn.sizeUsdDelta # 0 /\ calcIn.positionAvgPrice # 0) =>
        (~calcOut.out.threw /\ calcOut.out.hasProfit = ProfitRule)

\* Equal prices on a short of nonzero size: no profit.
C2_Witness ==
    /\ CalcReturned
    /\ calcIn.sizeUsdDelta > 0 /\ calcIn.positionAvgPrice > 0
    /\ calcIn.currentPrice = calcIn.positionAvgPrice
    /\ calcIn.positionSide = "short"
    /\ calcOut.out.hasProfit = FALSE

\* C3: a zero size returns (false, 0) for every entry price, 0 included, every
\* current price and either side, and never reaches the division.
C3_ZeroSizeNoPnl ==
    (calcOut.called /\ calcIn.sizeUsdDelta = 0) =>
        calcOut.out = [threw |-> FALSE, hasProfit |-> FALSE, pnlAmount |-> 0]

\* A zero size with entry price 0 and a higher current price on a long.
C3_Witness ==
    /\ CalcReturned
    /\ calcIn.sizeUsdDelta = 0 /\ calcIn.positionAvgPrice = 0
    /\ calcIn.currentPrice > 0 /\ calcIn.positionSide = "long"
    /\ calcOut.out.pnlAmount = 0

-----------------------------------------------------------------------------
(* Properties of getJupiterPositions, checked under Spec *)

Returned == pc = "done" /\ result.returned

PositionSize(p) == IF variant = "basic" THEN p.size ELSE p.sizeUsd

KnownCustodies == {JUPITER_MARKETS[m].custody : m \in 1..Len(JUPITER_MARKETS)}

SymbolOfCustody(c) ==
    (CHOOSE m \in {JUPITER_MARKETS[k] : k \in 1..Len(JUPITER_MARKETS)} : m.custody = c).symbol

\* C4: every returned position comes from a raw account that decodes, whose side
\* is long or short and whose sizeUsd is > 0; its direction is that side.
C4_PositionsOnlyFromOpenAccounts ==
    Returned =>
        \A k \in 1..Len(result.value) :
            LET p == result.value[k]
            IN  /\ p.direction \in {"LONG", "SHORT"}
                /\ \E i \in 1..Len(chain) :
                      LET a == chain[i].account
                      IN  /\ chain[i].decodable
                          /\ a.side \in {SideLong, SideShort}
                          /\ a.sizeUsd > 0
                          /\ p.direction = (IF a.side = SideLong THEN "LONG" ELSE "SHORT")
                          /\ PositionSize(p)[1] * USD_PRECISION = a.sizeUsd * PositionSize(p)[2]
                          /\ a.custody \in KnownCustodies
                          /\ p.symbol = SymbolOfCustody(a.custody)

\* One position is returned from two accounts, the other being closed (side none)
\* with a positive size.
C4_Witness ==
    /\ Returned
    /\ variant = "quote"
    /\ Len(chain) = 2
    /\ Len(result.value) = 1
    /\ \E i \in 1..2 : /\ chain[i].decodable
                       /\ chain[i].account.side = SideNone
                       /\ chain[i].account.sizeUsd > 0
                       /\ chain[i].account.custody = CUSTODY_PUBKEY.BTC

\* C8: a position whose custody matches no market resolves to null without an
\* exception and without a price lookup; the call still returns, and its list
\* holds the position of every other task that produced one.
C8_UnknownCustodyDropped ==
    /\ \A i \in 1..Len(tasks) :
          tasks[i].account.custody \notin KnownCustodies =>
              /\ tasks[i].state = "done"
              /\ tasks[i].result = Null
              /\ ~tasks[i].caught
              /\ tasks[i].lookups = 0
    /\ (pc = "done" /\ tasks # <<>>) =>
          /\ result.returned
          /\ Len(result.value) =
                Cardinality({i \in 1..Len(tasks) : tasks[i].account.custody \in KnownCustodies
                                                   /\ tasks[i].result # Null})
          /\ \A i \in 1..Len(tasks) :
                (/\ tasks[i].account.custody \in KnownCustodies
                 /\ tasks[i].account.side # SideNone
                 /\ ~tasks[i].caught) =>
                    \E k \in 1..Len(result.value) :
                        /\ result.value[k].symbol = SymbolOfCustody(tasks[i].account.custody)
                        /\ result.value[k].direction = JupiterSideToString(tasks[i].account.side)
                        /\ result.value[k].entryPrice = Rat(tasks[i].account.price, USD_PRECISION)

\* A batch of an unknown-custody position and a known one returns the known one.
C8_Witness ==
    /\ Returned
    /\ Len(tasks) = 2
    /\ tasks[1].account.custody = UnknownCustody
    /\ tasks[2].account.custody = CUSTODY_PUBKEY.BTC
    /\ Len(result.value) = 1
    /\ result.value[1].symbol = "BTC"

-----------------------------------------------------------------------------
(* Properties of processJupiterPosition, checked under SpecNormalize *)

Processed == pc = "direct" /\ Len(tasks) = 1 /\ tasks[1].state = "done"

PriceUsable ==
    /\ tasks[1].priceResult.fetched
    /\ tasks[1].priceResult.res.success
    /\ tasks[1].priceResult.res.price > 0

\* The signed PnL the claims describe, in raw units: 0 for a zero size, else the
\* floor of size * |mark - entry| / entry, positive exactly on a strict move in
\* favour of the side.
IsSignedPnl(raw, account, mark) ==
    LET product == account.sizeUsd * Abs(mark - account.price)
        profit == IF account.side = SideLong THEN mark > account.price
                                             ELSE account.price > mark
        amount == IF profit THEN raw ELSE -raw
    IN  IF account.sizeUsd = 0 THEN raw = 0
        ELSE /\ amount >= 0
             /\ amount * account.price <= product
             /\ product < (amount + 1) * account.price

\* C5: when the lookup gave a strictly positive price and a position is produced,
\* its markPrice is that price and its pnl is the calculator's amount, signed + on
\* a profit and - otherwise; the scenario (size 1000, entry 100, mark 110) gives
\* +100 on a long and -100 on a short.
C5_MarkPriceAndSignedPnl ==
    (Processed /\ PriceUsable /\ tasks[1].result # Null) =>
        LET a == tasks[1].account
            mark == tasks[1].priceResult.res.price
            p == tasks[1].result
        IN  /\ p.markPrice[1] * USD_PRECISION = mark * p.markPrice[2]
            /\ USD_PRECISION % p.pnl[2] = 0
            /\ IsSignedPnl(p.pnl[1] * (USD_PRECISION \div p.pnl[2]), a, mark)
            /\ (a \in ScenarioAccounts /\ mark \in ScenarioPrices) =>
                  p.pnl = Rat(IF a.side = SideLong THEN 100 ELSE -100, USD_PRECISION)

\* The scenario on a short: entry 100, mark 110, size 1000 gives -100.
C5_Witness ==
    /\ Processed /\ PriceUsable
    /\ tasks[1].account \in ScenarioAccounts
    /\ tasks[1].account.side = SideShort
    /\ tasks[1].priceResult.res.price = 110
    /\ tasks[1].result # Null
    /\ tasks[1].result.pnl = Rat(-100, USD_PRECISION)

\* C6: when the lookup failed or gave a non-positive price, the position is still
\* produced, its pnl is realisedPnlUsd / 10^6, its markPrice is its entryPrice and
\* the calculator was not invoked.
C6_FallbackToRealizedPnl ==
    (Processed /\ tasks[1].priceResult.fetched /\ ~PriceUsable) =>
        LET a == tasks[1].account
            p == tasks[1].result
        IN  /\ p # Null
            /\ p.pnl = Rat(a.realisedPnlUsd, USD_PRECISION)
            /\ p.markPrice = p.entryPrice
            /\ p.entryPrice = Rat(a.price, USD_PRECISION)
            /\ ~tasks[1].calc.called

\* A failed lookup on an account with a negative realized PnL.
C6_Witness ==
    /\ Processed
    /\ tasks[1].priceResult.fetched /\ ~tasks[1].priceResult.res.success
    /\ tasks[1].account.realisedPnlUsd = -1
    /\ tasks[1].account.price = 2
    /\ tasks[1].result # Null
    /\ tasks[1].result.pnl = <<-1, USD_PRECISION>>
    /\ tasks[1].result.markPrice = <<1, 500000>>

\* C7: a raw account whose side is none yields null, whatever its other fields,
\* and no price lookup and no request is issued for it.
C7_SideNoneIsNull ==
    (pc = "direct" /\ tasks[1].account.side = SideNone) =>
        /\ tasks[1].state = "done"
        /\ tasks[1].result = Null
        /\ tasks[1].lookups = 0
        /\ tasks[1].requests = 0
        /\ ~tasks[1].caught

\* A closed account with a known custody, a positive size and a positive price.
C7_Witness ==
    /\ Processed
    /\ variant = "market"
    /\ tasks[1].account.side = SideNone
    /\ tasks[1].account.custody = CUSTODY_PUBKEY.BTC
    /\ tasks[1].account.sizeUsd > 0 /\ tasks[1].account.price > 0
    /\ tasks[1].result = Null

\* C9 as claimed: calculatePositionPnl is never invoked with entryPrice = 0 and a
\* nonzero size.
C9_DivisionGuarded ==
    \A i \in 1..Len(tasks) :
        tasks[i].calc.called =>
            ~(tasks[i].calc.args.positionAvgPrice = 0 /\ tasks[i].calc.args.sizeUsdDelta # 0)

OpenAndKnown(a) ==
    /\ a.custody \in KnownCustodies
    /\ a.side \in {SideLong, SideShort}
    /\ a.sizeUsd > 0

\* C10 as claimed: an open account with a known custody yields a position whose
\* baseAmount is 0 when its entry price is 0, whatever the price lookup gave, and
\* sizeUsd / entryPrice when its entry price is > 0.
C10_BaseAmount ==
    (Processed /\ variant # "basic" /\ OpenAndKnown(tasks[1].account)) =>
        /\ tasks[1].result # Null
        /\ tasks[1].result.baseAmount =
              IF tasks[1].account.price = 0 THEN <<0, 1>>
              ELSE Rat(tasks[1].account.sizeUsd, tasks[1].account.price)

\* v is x_n / x_d rounded to `digits` decimal places, a tie going up.
IsRoundedHalfUp(v, x_n, x_d, digits) ==
    /\ Pow10(digits) % v[2] = 0
    /\ LET n == v[1] * (Pow10(digits) \div v[2])
       IN  /\ 2 * n * x_d - x_d <= 2 * x_n * Pow10(digits)
           /\ 2 * x_n * Pow10(digits) < 2 * n * x_d + x_d

LeverageDigits == IF variant = "basic" THEN BASIC_LEVERAGE_PRECISION ELSE LEVERAGE_PRECISION

-----------------------------------------------------------------------------
(* Properties of the batch, checked under Spec *)

Undecodable == {i \in 1..Len(chain) : ~chain[i].decodable}

\* Some returned position is the one of raw account i.
ReturnedFor(i) ==
    \E k \in 1..Len(result.value) :
        /\ result.value[k].symbol = SymbolOfCustody(chain[i].account.custody)
        /\ result.value[k].direction = JupiterSideToString(chain[i].account.side)
        /\ result.value[k].entryPrice = Rat(chain[i].account.price, USD_PRECISION)

\* C12 as claimed: when exactly one of the N raw accounts fails to decode and the
\* other N-1 are open positions with a known custody, the call returns a position
\* for each of the N-1 others.
C12_DecodeFailureDropsOnlyThatItem ==
    (/\ Returned
     /\ rpc = "resolved"
     /\ Cardinality(Undecodable) = 1
     /\ \A i \in 1..Len(chain) : chain[i].decodable => OpenAndKnown(chain[i].account)) =>
        /\ Len(result.value) = Len(chain) - 1
        /\ \A i \in 1..Len(chain) : chain[i].decodable => ReturnedFor(i)

\* C13: a position whose normalization throws has the result null; every other
\* position of the batch is still normalized and returned, and the call resolves
\* with a list: the exception neither rejects the join nor reaches the caller.
C13_ThrowYieldsNullOnly ==
    /\ \A i \in 1..Len(tasks) :
          tasks[i].caught => (tasks[i].state = "done" /\ tasks[i].result = Null)
    /\ (pc = "done" /\ \E i \in 1..Len(tasks) : tasks[i].caught) =>
          /\ DOMAIN result = {"returned", "value"}
          /\ result.returned
          /\ Len(result.value) =
                Cardinality({i \in 1..Len(tasks) : ~tasks[i].caught
                                                   /\ tasks[i].account.custody \in KnownCustodies})
          /\ \A i \in 1..Len(tasks) :
                (~tasks[i].caught /\ tasks[i].account.custody \in KnownCustodies) =>
                    ReturnedFor(tasks[i].publicKey)

\* Of two open positions the first throws in the calculator and the second is
\* returned.
C13_Witness ==
    /\ Returned
    /\ Len(tasks) = 2
    /\ tasks[1].caught
    /\ ~tasks[2].caught
    /\ Len(result.value) = 1
    /\ ReturnedFor(tasks[2].publicKey)

\* C14: when the account fetch throws, the call resolves to the empty list; the
\* call never rejects, whatever the RPC and the price source do.
C14_FetchFailureGivesEmptyList ==
    /\ pc = "done" => (DOMAIN result = {"returned", "value"} /\ result.returned)
    /\ rpc = "rejected" => (pc = "done" /\ result.value = <<>> /\ tasks = <<>>)
    /\ pc # "done" => result = NotReturned

\* The fetch of two accounts that would both have been returned is rejected.
C14_Witness ==
    /\ rpc = "rejected"
    /\ Returned
    /\ result.value = <<>>
    /\ Len(chain) = 2
    /\ \A i \in 1..2 : chain[i].decodable /\ OpenAndKnown(chain[i].account)

\* C15 as claimed: the call always yields a list; when the fetch returns no raw
\* account, or no account survives decoding, filtering and normalization, the
\* list is empty and no price lookup was issued.
C15_EmptyWithoutLookup ==
    /\ pc = "done" => (DOMAIN result = {"returned", "value"} /\ result.returned)
    /\ (/\ Returned
        /\ rpc = "resolved"
        /\ \A i \in 1..Len(tasks) : tasks[i].result = Null) =>
          /\ result.value = <<>>
          /\ \A i \in 1..Len(tasks) : tasks[i].lookups = 0 /\ tasks[i].requests = 0

-----------------------------------------------------------------------------
(* Properties of fetchCurrentPrice, checked under SpecPrice *)

PriceReturned == priceCall.state = "done"

\* The response carries no usable price data.
ResponseUnusable ==
    \/ priceCall.resp.kind \in {"throw", "notok", "badjson"}
    \/ /\ priceCall.resp.kind = "ok"
       /\ IF variant = "quote" THEN ~priceCall.resp.hasIn \/ ~priceCall.resp.hasOut
                                ELSE ~priceCall.resp.hasUsd

\* C16: fetchCurrentPrice always returns a result record and never throws: an
\* unsupported symbol, an exception of the request, a non-success HTTP status and
\* a payload that cannot be parsed or lacks the price fields all give
\* success = false, and every success = false result has price 0.
C16_FetchCurrentPriceTotal ==
    PriceReturned =>
        /\ DOMAIN priceCall.res = {"success", "price", "symbol"}
        /\ priceCall.res.success \in BOOLEAN
        /\ priceCall.res.symbol = priceCall.symbol
        /\ priceCall.symbol = UnsupportedSymbol =>
              (~priceCall.res.success /\ priceCall.requests = 0)
        /\ (priceCall.requests = 1 /\ ResponseUnusable) => ~priceCall.res.success
        /\ ~priceCall.res.success => priceCall.res.price = 0

\* The BTC quote request throws and the call returns a failure with price 0.
C16_Witness ==
    /\ PriceReturned
    /\ variant = "quote"
    /\ priceCall.symbol = "BTC"
    /\ priceCall.resp.kind = "throw"
    /\ priceCall.res = [success |-> FALSE, price |-> 0, symbol |-> "BTC"]

\* C17 as claimed: every success = true result carries a price > 0; a quote
\* with outAmount 0 or inAmount 0 never gives success = true.
C17_SuccessMeansPositive ==
    (PriceReturned /\ priceCall.res.success) =>
        /\ priceCall.res.price > 0
        /\ (variant = "quote" /\ priceCall.requests = 1) =>
              (priceCall.resp.outAmount # 0 /\ priceCall.resp.inAmount # 0)

\* C18 as claimed: for USDC fetchCurrentPrice returns success with the constant
\* price 1000000 and performs no network request.
C18_UsdcConstantEveryResolver ==
    (priceCall.symbol = "USDC" /\ priceCall.state # "call") =>
        /\ PriceReturned
        /\ priceCall.res.success
        /\ priceCall.res.price = 1000000
        /\ priceCall.requests = 0

\* C18, amended: for USDC the Quote API resolver returns success with the
\* constant price 1000000 and performs no network request; the CoinGecko
\* resolver has no such shortcut and issues its request.
C18_UsdcConstantQuoteResolver ==
    (priceCall.symbol = "USDC" /\ priceCall.state # "call") =>
        IF variant = "quote"
        THEN /\ PriceReturned
             /\ priceCall.res.success
             /\ priceCall.res.price = 1000000
             /\ priceCall.requests = 0
        ELSE priceCall.requests = 1

\* The Quote API resolver has answered for USDC without a request.
C18_Witness ==
    /\ variant = "quote"
    /\ priceCall.symbol = "USDC"
    /\ PriceReturned
    /\ priceCall.requests = 0
    /\ priceCall.res = [success |-> TRUE, price |-> 1000000, symbol |-> "USDC"]

\* C19 as claimed: a successful price obtained from a response is the quoted
\* price rounded half up to an integer at 6 decimals: for the Quote API resolver
\* the quotient outAmount * 10^inputDecimals / inAmount plus 1 when the
\* remainder is at least half of inAmount, for the CoinGecko resolver usd * 10^6
\* rounded half up.
C19_PriceRoundedHalfUp ==
    (PriceReturned /\ priceCall.res.success /\ priceCall.requests = 1) =>
        IF variant = "quote"
        THEN LET numerator == priceCall.resp.outAmount * Pow10(TOKEN_DECIMALS[priceCall.symbol])
                 quotient == numerator \div priceCall.resp.inAmount
                 remainder == numerator % priceCall.resp.inAmount
             IN  priceCall.res.price =
                    IF 2 * remainder >= priceCall.resp.inAmount THEN quotient + 1 ELSE quotient
        ELSE /\ 4 * priceCall.res.price - 2 <= priceCall.resp.usdQuarterMicros
             /\ priceCall.resp.usdQuarterMicros < 4 * priceCall.res.price + 2

-----------------------------------------------------------------------------
(* Independence of the per-account normalizations, checked under Spec *)

\* The tasks whose result is a position, and the k-th of them in task order.
Kept == {i \in 1..Len(tasks) : tasks[i].result # Null}

KeptAt(k) == CHOOSE i \in Kept : Cardinality({j \in Kept : j < i}) = k - 1

\* The result of task i as its own account and its own price response fix it:
\* null after a throw, for an unknown custody or for the side none, else a
\* position of the account's market and side, marked at the task's own price
\* when that is usable and at the account's entry price otherwise.
OwnResult(i) ==
    LET t == tasks[i]
        a == t.account
        usable == t.priceResult.fetched /\ t.priceResult.res.success
                  /\ t.priceResult.res.price > 0
    IN  IF t.caught \/ a.custody \notin KnownCustodies \/ a.side = SideNone
        THEN t.result = Null
        ELSE /\ t.result # Null
             /\ t.result.symbol = SymbolOfCustody(a.custody)
             /\ t.result.direction = JupiterSideToString(a.side)
             /\ t.result.entryPrice[1] * USD_PRECISION = a.price * t.result.entryPrice[2]
             /\ t.result.markPrice[1] * USD_PRECISION =
                    (IF usable THEN t.priceResult.res.price ELSE a.price) * t.result.markPrice[2]
             /\ ~usable =>
                    t.result.pnl[1] * USD_PRECISION = a.realisedPnlUsd * t.result.pnl[2]

\* The returned list is fixed by the accounts and by each account's own response.
ResultInInputOrder ==
    (Returned /\ rpc = "resolved") =>
        /\ \A i \in 1..Len(tasks) :
              /\ tasks[i].account = chain[tasks[i].publicKey].account
              /\ \A j \in 1..Len(tasks) : i < j => tasks[i].publicKey < tasks[j].publicKey
              /\ OwnResult(i)
        /\ Len(result.value) = Cardinality(Kept)
        /\ \A k \in 1..Len(result.value) : result.value[k] = tasks[KeptAt(k)].result

\* A step completes at most one task and leaves every other task, and every
\* completed task, as it was.
OneTaskPerStep ==
    (tasks # <<>> /\ tasks' # tasks) =>
        /\ Len(tasks') = Len(tasks)
        /\ \E i \in 1..Len(tasks) :
              /\ tasks[i].state = "pending"
              /\ tasks'[i].account = tasks[i].account
              /\ tasks'[i].publicKey = tasks[i].publicKey
              /\ \A j \in 1..Len(tasks) : j # i => tasks'[j] = tasks[j]

\* C20: the per-account normalizations are independent and joined by a barrier:
\* whatever the order in which the price responses arrive, the returned list
\* holds, in the order of the input accounts, the result each account has from
\* its own account data and its own price response; no response changes another
\* account's task.
C20_OrderIndependent == []ResultInInputOrder /\ [][OneTaskPerStep]_vars

\* Two open positions, the second answered before the first, both returned in
\* input order.
C20_Witness ==
    /\ Returned
    /\ variant = "quote"
    /\ Len(tasks) = 2
    /\ Len(result.value) = 2
    /\ tasks[1].account.side # tasks[2].account.side
    /\ tasks[1].priceResult.res.success
    /\ ~tasks[2].priceResult.res.success
    /\ result.value[1] = tasks[1].result
    /\ result.value[2] = tasks[2].result

-----------------------------------------------------------------------------
(* Timeouts and termination, checked under SpecLive *)

CallPending ==
    \/ rpc = "pending"
    \/ \E i \in 1..Len(tasks) : tasks[i].state = "pending"

\* While a call is pending nothing is returned and the join cannot run.
NoResultWhilePending ==
    CallPending => (pc # "done" /\ result = NotReturned /\ ~ENABLED Join)

\* C21: there is no timeout or cancellation: while the account fetch or any
\* started price lookup is pending, the call has returned nothing, not even a
\* partial list, so a call that never returns stalls the batch; and when every
\* external call eventually returns or fails, the call eventually returns.
C21_NoTimeoutButTerminates == []NoResultWhilePending /\ <>Returned

\* One of two lookups has completed, the other is pending, nothing is returned.
C21_Witness ==
    /\ pc = "processing"
    /\ Len(tasks) = 2
    /\ tasks[1].state = "pending"
    /\ tasks[2].state = "done"
    /\ tasks[2].result # Null
    /\ result = NotReturned

-----------------------------------------------------------------------------
(* Properties of getDriftPositions, checked under SpecDrift *)

\* The client was created and subscribed: initializeClient returned it.
ClientSubscribed == drift.clientVar

\* unsubscribe() has been called on the client, and on the user if one was created.
CleanedUp ==
    /\ drift.clientUnsub # "no"
    /\ drift.userVar => drift.userUnsub # "no"

C24_ProcessingCleansUpOnEveryPath ==
    (drift.impl = "processing" /\ ClientSubscribed /\ drift.pc = "done") =>
        drift.clientUnsub # "no"

\* C30: cleanup is failure-tolerant and masks nothing: after a throwing
\* user.unsubscribe(), driftClient.unsubscribe() is still called; cleanup never
\* throws; and the caller observes the value or the error produced before
\* cleanup, and only once cleanup has finished.
C30_CleanupNeverMasksOutcome ==
    /\ (drift.pc = "done" /\ drift.userUnsub = "threw") => drift.clientUnsub # "no"
    /\ drift.pc = "done" =>
          /\ drift.outcome # NoOutcome
          /\ drift.result = drift.outcome
          /\ drift.result.kind = "throw" =>
                drift.result.error \notin {"userUnsubscribe", "clientUnsubscribe"}
    /\ drift.pc \in {"userUnsubscribe", "clientUnsubscribe"} =>
          (drift.outcome # NoOutcome /\ drift.result = NoOutcome)

\* Both unsubscribe calls threw and the two processed positions are returned.
C30_Witness ==
    /\ drift.impl = "processing"
    /\ drift.pc = "done"
    /\ drift.userUnsub = "threw"
    /\ drift.clientUnsub = "threw"
    /\ drift.result = Returns(2)

-----------------------------------------------------------------------------
(* Properties of main, checked under SpecMain *)

\* C22 as claimed: whatever collaborator fails (the RPC connection, the Drift
\* client's creation or subscription, the Jupiter account fetch), main never
\* terminates with an error exit, and once both calls have settled it reports
\* the positions that could be computed.
C22_FailuresNeverCrashTheRun ==
    /\ main.pc # "exited"
    /\ main.exitCode = 0
    /\ main.pc = "reported" => main.report.printed

-----------------------------------------------------------------------------
(* Further properties of processJupiterPosition, checked under SpecNormalize *)

\* C25 as claimed: processJupiterPosition called on an account with a known
\* custody, side long or short and a sizeUsd of zero or less returns null.
C25_NonPositiveSizeIsNull ==
    (/\ Processed
     /\ tasks[1].account.custody \in KnownCustodies
     /\ tasks[1].account.side \in {SideLong, SideShort}
     /\ tasks[1].account.sizeUsd <= 0) =>
        tasks[1].result = Null

-----------------------------------------------------------------------------
(* Price lookups of a batch, checked under Spec *)

\* Raw account i decodes, passes the open-position filter and has a known market.
Eligible(i) ==
    /\ chain[i].decodable
    /\ OpenAndKnown(chain[i].account)

TasksOf(i) == {t \in 1..Len(tasks) : tasks[t].publicKey = i}

\* C26: within one call of a priced pipeline the price resolver is invoked
\* exactly once for each account that decoded, passed the open-position filter
\* and has a known market, and never for an account that failed to decode, has
\* size <= 0, side none or an unknown custody; a lookup issues at most one
\* external request.
C26_OneLookupPerEligibleAccount ==
    /\ rpc = "pending" => tasks = <<>>
    /\ (variant # "basic" /\ rpc = "resolved" /\ tasks # <<>>) =>
          \A i \in 1..Len(chain) :
              IF Eligible(i)
              THEN /\ Cardinality(TasksOf(i)) = 1
                   /\ \A t \in TasksOf(i) : tasks[t].lookups = 1 /\ tasks[t].requests <= 1
              ELSE \A t \in TasksOf(i) : tasks[t].lookups = 0 /\ tasks[t].requests = 0

\* An account of an unknown custody had no lookup, a BTC account had one lookup
\* with one request.
C26_Witness ==
    /\ Returned
    /\ variant = "quote"
    /\ Len(tasks) = 2
    /\ ~Eligible(tasks[1].publicKey)
    /\ tasks[1].lookups = 0
    /\ Eligible(tasks[2].publicKey)
    /\ tasks[2].lookups = 1
    /\ tasks[2].requests = 1

-----------------------------------------------------------------------------
(* The priced variants as one normalizer, checked under SpecNormalize *)

\* r is the raw amount n at the scale of USD_PRECISION.
IsDescaled(r, n) == r[1] * USD_PRECISION = n * r[2]

\* The position that account `a` and the price result `usable, mark` determine,
\* field by field, with no reference to the pipeline that produced it.
IsNormalized(p, a, usable, mark) ==
    /\ p.symbol = SymbolOfCustody(a.custody)
    /\ p.protocolMarketId = a.custody
    /\ p.direction = (IF a.side = SideLong THEN "LONG" ELSE "SHORT")
    /\ IsDescaled(p.sizeUsd, a.sizeUsd)
    /\ IsDescaled(p.entryPrice, a.price)
    /\ IF a.price > 0 THEN p.baseAmount[1] * a.price = a.sizeUsd * p.baseAmount[2]
                      ELSE p.baseAmount = <<0, 1>>
    /\ IF a.collateralUsd > 0
       THEN IsRoundedHalfUp(p.leverage, a.sizeUsd, a.collateralUsd, LEVERAGE_PRECISION)
       ELSE p.leverage = <<1, 1>>
    /\ IF usable
       THEN /\ IsDescaled(p.markPrice, mark)
            /\ USD_PRECISION % p.pnl[2] = 0
            /\ IsSignedPnl(p.pnl[1] * (USD_PRECISION \div p.pnl[2]), a, mark)
       ELSE /\ IsDescaled(p.markPrice, a.price)
            /\ IsDescaled(p.pnl, a.realisedPnlUsd)

\* C27: the quote-based and the market-data-based pipeline are one normalizer:
\* what either returns for an account is fixed by the account and by the
\* PriceResult its resolver supplied (null or a position with the same pnl,
\* markPrice, leverage, baseAmount and direction), so on the same accounts and
\* the same PriceResults both return the same positions.
C27_VariantsAreOneNormalizer ==
    (Processed /\ variant # "basic") =>
        LET t == tasks[1]
            a == t.account
            supplied == t.priceResult.fetched
            usable == supplied /\ t.priceResult.res.success /\ t.priceResult.res.price > 0
            mark == IF usable THEN t.priceResult.res.price ELSE 0
        IN  IF \/ a.custody \notin KnownCustodies
               \/ a.side = SideNone
               \/ (usable /\ a.price = 0 /\ a.sizeUsd # 0)
            THEN t.result = Null
            ELSE /\ supplied
                 /\ t.result # Null
                 /\ IsNormalized(t.result, a, usable, mark)

\* The market-data pipeline on a short with entry 1 marked at 3: pnl -2 * size.
C27_Witness ==
    /\ Processed
    /\ variant = "market"
    /\ tasks[1].account.side = SideShort
    /\ tasks[1].account.price = 1
    /\ tasks[1].account.sizeUsd = 2
    /\ PriceUsable
    /\ tasks[1].priceResult.res.price = 3
    /\ tasks[1].result # Null
    /\ tasks[1].result.pnl = Rat(-4, USD_PRECISION)

-----------------------------------------------------------------------------
(* Relations between reported PnLs, checked under SpecCompare *)

\* The calculator's precondition of C28 and C29: a position with a size, an
\* entry price and a current price all > 0.
PositivePosition ==
    /\ calcIn.sizeUsdDelta > 0
    /\ calcIn.positionAvgPrice > 0
    /\ calcIn.currentPrice > 0

\* Rationals with positive denominators, compared by cross-multiplication.
RatLess(x, y) == x[1] * y[2] < y[1] * x[2]

RatLessEq(x, y) == x[1] * y[2] <= y[1] * x[2]

\* C28: for the same sizeUsd > 0, entryPrice > 0 and currentPrice > 0 the signed
\* PnL of a long is the negation of the signed PnL of a short, and both are 0
\* when currentPrice = entryPrice.
C28_LongShortAntisymmetry ==
    (calcOut.called /\ calcOut.kind = "sides" /\ PositivePosition) =>
        /\ ~calcOut.long.threw
        /\ ~calcOut.short.threw
        /\ calcOut.long.pnl[2] = calcOut.short.pnl[2]
        /\ calcOut.long.pnl[1] + calcOut.short.pnl[1] = 0
        /\ calcIn.currentPrice = calcIn.positionAvgPrice =>
              (calcOut.long.pnl[1] = 0 /\ calcOut.short.pnl[1] = 0)

\* Size 2, entry 1, current 3: +4 for the long and -4 for the short.
C28_Witness ==
    /\ calcOut.called
    /\ calcOut.kind = "sides"
    /\ calcIn.sizeUsdDelta = 2
    /\ calcIn.positionAvgPrice = 1
    /\ calcIn.currentPrice = 3
    /\ calcOut.long.pnl = Rat(4, USD_PRECISION)
    /\ calcOut.short.pnl = Rat(-4, USD_PRECISION)

\* The loss bound and the monotonicity of a long.
LongLossBelowSize ==
    (calcOut.called /\ calcOut.kind = "prices" /\ PositivePosition
        /\ calcIn.positionSide = "long") =>
        /\ ~calcOut.atCurrent.threw
        /\ ~calcOut.atHigher.threw
        /\ RatLess(Rat(-calcIn.sizeUsdDelta, USD_PRECISION), calcOut.atCurrent.pnl)
        /\ RatLessEq(calcOut.atCurrent.pnl, calcOut.atHigher.pnl)

\* C29 as claimed: a long with sizeUsd > 0, entryPrice > 0 and a current price
\* > 0 loses strictly less than sizeUsd and its signed PnL is non-decreasing in
\* the current price; the loss of a short exceeds sizeUsd once
\* currentPrice > 2 * entryPrice.
C29_ShortLossExceedsSize ==
    /\ LongLossBelowSize
    /\ (calcOut.called /\ calcOut.kind = "prices" /\ PositivePosition
          /\ calcIn.positionSide = "short"
          /\ calcIn.currentPrice > 2 * calcIn.positionAvgPrice) =>
            /\ ~calcOut.atCurrent.threw
            /\ RatLess(calcOut.atCurrent.pnl, Rat(-calcIn.sizeUsdDelta, USD_PRECISION))

\* C29, amended: a long with sizeUsd > 0, entryPrice > 0 and a current price > 0
\* loses strictly less than sizeUsd and its signed PnL is non-decreasing in the
\* current price; the loss of a short is at least sizeUsd once
\* currentPrice > 2 * entryPrice (the truncation can leave it equal) and exceeds
\* sizeUsd once currentPrice >= 3 * entryPrice.
C29_ShortLossReachesSize ==
    /\ LongLossBelowSize
    /\ (calcOut.called /\ calcOut.kind = "prices" /\ PositivePosition
          /\ calcIn.positionSide = "short"
          /\ calcIn.currentPrice > 2 * calcIn.positionAvgPrice) =>
            /\ ~calcOut.atCurrent.threw
            /\ RatLessEq(calcOut.atCurrent.pnl, Rat(-calcIn.sizeUsdDelta, USD_PRECISION))
            /\ calcIn.currentPrice >= 3 * calcIn.positionAvgPrice =>
                  RatLess(calcOut.atCurrent.pnl, Rat(-calcIn.sizeUsdDelta, USD_PRECISION))

\* A short of size 1 entered at 2 and marked at 5 loses exactly its size.
C29_Witness ==
    /\ calcOut.called
    /\ calcOut.kind = "prices"
    /\ calcIn.positionSide = "short"
    /\ calcIn.sizeUsdDelta = 1
    /\ calcIn.positionAvgPrice = 2
    /\ calcIn.currentPrice = 5
    /\ calcOut.atCurrent.pnl = Rat(-1, USD_PRECISION)

====
